---- MODULE Spec2Model ----
(***************************************************************************)
(* A model of src/app.py, the BMKG forecast dashboard (a Streamlit script). *)
(*                                                                         *)
(* Representation                                                          *)
(*   - an optional value (a pandas cell that may be NaN / None / NaT) is a *)
(*     sequence of length at most one: <<>> is absent, <<v>> is present;   *)
(*   - a text is a sequence of one-character strings;                      *)
(*   - a wind direction is an integer count of quarter degrees             *)
(*     (11.25 deg = 45, 22.5 deg = 90, 360 deg = 1440), a wind speed an    *)
(*     integer count of tenths of a metre per second (1.5 m/s = 15);       *)
(*     every value of that grid and every bin edge of the code is exact on *)
(*     it, so the order comparisons of the code are kept;                  *)
(*   - non-finite numbers (inf) are not modelled.                          *)
(***************************************************************************)
EXTENDS Integers, Sequences, FiniteSets, TLC

VARIABLES
    pc,             \* position of the script run
    shown,          \* the UI elements the run has emitted (errors, warnings, charts, ...)
    \* the widgets of the sidebar
    user_input,     \* text input (line 86)
    refresh,        \* button "Ambil ulang data" (line 87)
    show_map,       \* checkbox (line 90)
    show_windrose,  \* checkbox (line 91)
    show_table,     \* checkbox (line 92)
    \* the BMKG service and the clock
    adm_table,      \* the province list the service answers with
    server_data,    \* the "data" list the service answers a forecast request with
    now,            \* seconds on the clock
    ticks,          \* how many times the clock has been advanced
    \* the two st.cache_data caches
    cache_adm,      \* of fetch_adm_mapping (line 16)
    cache_fc,       \* of fetch_forecast, keyed by adm1 (line 38)
    \* the run
    requests,       \* the HTTP requests the run has sent
    adm1,           \* line 97
    raw,            \* line 107
    entries,        \* line 113
    mapping,        \* line 121
    derived,        \* the label computed for each entry at line 124, in order
    loc_choice,     \* line 132
    selected_entry, \* line 136
    df,             \* lines 137, 145
    start_dt,       \* the slider's range (line 153)
    df_sel,         \* the time-filtered observation table (line 162)
    df_wind,        \* df_sel without the rows lacking a class or a sector (line 307)
    fig_wr,         \* the bars handed to px.bar_polar (line 316)
    exported        \* the table offered for download (lines 352-359)

widgets == <<user_input, refresh, show_map, show_windrose, show_table>>
clock == <<now, ticks>>
world == <<adm_table, server_data>>
caches == <<cache_adm, cache_fc>>
front == <<requests, adm1, raw>>
locs == <<entries, mapping, derived, loc_choice, selected_entry>>

vars == <<pc, shown, widgets, world, clock, caches, front, locs, df, start_dt, df_sel,
          df_wind, fig_wr, exported>>

(***************************************************************************)
(* Optional values                                                         *)
(***************************************************************************)
NaN == <<>>
None == <<>>
Some(v) == <<v>>
isna(x) == x = <<>>
notna(x) == x # <<>>

\* Python's int(): truncation toward zero of the quotient n / d (d > 0).
Trunc(n, d) == IF n >= 0 THEN n \div d ELSE -((-n) \div d)

RECURSIVE SumSeq(_)
SumSeq(s) == IF s = <<>> THEN 0 ELSE Head(s) + SumSeq(Tail(s))

(***************************************************************************)
(* Wind rose: speed classes (lines 279-283)                                *)
(***************************************************************************)
\* bins = [0.0, 1.5, 3.3, 5.5, 7.9, 10.7, np.inf], in tenths; the last edge,
\* np.inf, is the open end of the last class.
bins == <<0, 15, 33, 55, 79, 107>>

labels == <<"Tenang (<1.5)", "Lemah (1.5-3.3)", "Sedang (3.3-5.5)",
            "Kuat (5.5-7.9)", "Sangat Kuat (7.9-10.7)", "Badai (>10.7)">>

\* pd.cut(..., right=True), the pandas default: classes open on the low side.
cut_right_closed(x) ==
    IF isna(x) THEN NaN
    ELSE LET hit == {i \in 1..Len(bins) :
                        /\ bins[i] < x[1]
                        /\ (i = Len(bins) \/ x[1] <= bins[i + 1])}
         IN IF hit = {} THEN NaN ELSE Some(labels[CHOOSE i \in hit : TRUE])

\* pd.cut(x, bins=bins, labels=labels, right=False): the class i with
\* bins[i] <= x < bins[i+1]; NaN for a NaN and for a value outside every class.
cut(x) ==
    IF isna(x) THEN NaN
    ELSE LET hit == {i \in 1..Len(bins) :
                        /\ bins[i] <= x[1]
                        /\ (i = Len(bins) \/ x[1] < bins[i + 1])}
         IN IF hit = {} THEN NaN ELSE Some(labels[CHOOSE i \in hit : TRUE])

(***************************************************************************)
(* Wind rose: compass sectors (lines 293-304)                              *)
(***************************************************************************)
HalfSector == 45      \* 11.25 degrees
SectorWidth == 90     \* 22.5 degrees
FullCircle == 1440    \* 360 degrees

dir_labels == <<"N", "NNE", "NE", "ENE", "E", "ESE", "SE", "SSE", "S",
                "SSW", "SW", "WSW", "W", "WNW", "NW", "NNW", "N">>

\* A sector index computed without the half-sector shift.
dir_index_unshifted(deg) == Trunc(deg % FullCircle, SectorWidth)

\* idx = int(((deg + 11.25) % 360) / 22.5); Python's % takes the sign of the
\* divisor, as TLA+'s does.
dir_index(deg) == Trunc((deg + HalfSector) % FullCircle, SectorWidth)

deg_to_dir(deg) ==
    IF isna(deg) THEN None ELSE Some(dir_labels[dir_index(deg[1]) + 1])

(***************************************************************************)
(* Wind rose: the section of the script (lines 273-339)                    *)
(***************************************************************************)
SetColumn(frame, col, f(_)) == [i \in 1..Len(frame) |-> [frame[i] EXCEPT ![col] = f(frame[i])]]

\* A dropna that looks at the sector column alone.
dropna_dir_only(frame) == SelectSeq(frame, LAMBDA r : notna(r.wd_direction))

\* DataFrame.dropna(subset=["ws_category", "wd_direction"])
dropna(frame) == SelectSeq(frame, LAMBDA r : notna(r.ws_category) /\ notna(r.wd_direction))

\* r = df_wind["ws_category"].apply(lambda x: 1): a radius that ignores the row
r_weighted(row) == row.ws[1]
r_of(row) == 1

\* px.bar_polar(df_wind, r=..., theta="wd_direction", color="ws_category"):
\* one bar per row
bar_polar(frame) ==
    [i \in 1..Len(frame) |->
        [theta |-> frame[i].wd_direction[1], color |-> frame[i].ws_category[1], r |-> r_of(frame[i])]]

\* The length of the stacked bar drawn in a (sector, class) cell.
CellValue(fig, theta, color) ==
    SumSeq([i \in 1..Len(fig) |->
              IF fig[i].theta = theta /\ fig[i].color = color THEN fig[i].r ELSE 0])

WindRoseGuard ==
    /\ pc = "windrose"
    /\ IF show_windrose /\ df_sel # <<>>
         THEN /\ pc' = "wr_cut"
              /\ shown' = shown \cup {"Wind Rose (Mawar Angin)"}
         ELSE /\ pc' = "show_table"
              /\ shown' = shown
    /\ UNCHANGED <<widgets, world, clock, caches, front, locs, df, start_dt, df_sel, df_wind, fig_wr, exported>>

CutSpeed ==
    /\ pc = "wr_cut"
    /\ df_sel' = SetColumn(df_sel, "ws_category", LAMBDA r : cut(r.ws))
    /\ pc' = "wr_dir"
    /\ UNCHANGED <<shown, widgets, world, clock, caches, front, locs, df, start_dt, df_wind, fig_wr, exported>>

ApplyDegToDir ==
    /\ pc = "wr_dir"
    /\ df_sel' = SetColumn(df_sel, "wd_direction", LAMBDA r : deg_to_dir(r.wd_deg))
    /\ pc' = "wr_dropna"
    /\ UNCHANGED <<shown, widgets, world, clock, caches, front, locs, df, start_dt, df_wind, fig_wr, exported>>

DropNa ==
    /\ pc = "wr_dropna"
    /\ df_wind' = dropna(df_sel)
    /\ pc' = "wr_chart"
    /\ UNCHANGED <<shown, widgets, world, clock, caches, front, locs, df, start_dt, df_sel, fig_wr, exported>>

WarnNoWind ==
    /\ pc = "wr_chart"
    /\ df_wind = <<>>
    /\ shown' = shown \cup {"warning: Tidak cukup data kecepatan dan arah angin"}
    /\ pc' = "show_table"
    /\ UNCHANGED <<widgets, world, clock, caches, front, locs, df, start_dt, df_sel, df_wind, fig_wr, exported>>

BarPolar ==
    /\ pc = "wr_chart"
    /\ df_wind # <<>>
    /\ fig_wr' = bar_polar(df_wind)
    /\ shown' = shown \cup {"fig_wr"}
    /\ pc' = "show_table"
    /\ UNCHANGED <<widgets, world, clock, caches, front, locs, df, start_dt, df_sel, df_wind, exported>>

WindNext == WindRoseGuard \/ CutSpeed \/ ApplyDegToDir \/ DropNa \/ WarnNoWind \/ BarPolar

(***************************************************************************)
(* Inputs of the wind-rose specifications                                  *)
(***************************************************************************)
\* The rest of the state of a run that is inside the wind-rose section.
InWindRose ==
    /\ user_input = <<>> /\ refresh = FALSE /\ show_map = FALSE /\ show_table = FALSE
    /\ adm_table = <<>> /\ server_data = <<>> /\ now = 0 /\ ticks = 0
    /\ cache_adm = None /\ cache_fc = <<>>
    /\ requests = <<>> /\ adm1 = None /\ raw = None
    /\ entries = <<>> /\ mapping = <<>> /\ derived = <<>>
    /\ loc_choice = None /\ selected_entry = None
    /\ df = <<>> /\ start_dt = None
    /\ df_wind = <<>> /\ fig_wr = <<>> /\ exported = None

MaxTurns == 2       \* directions range over -MaxTurns .. MaxTurns full circles
MaxSpeed == 250     \* speeds range up to MaxSpeed tenths of a m/s
MinSpeed == 20      \* and down to -MinSpeed tenths (a negative reading)
MaxRows == 2        \* rows of the time-filtered table in SpecWind

Row(i, deg, speed) ==
    [idx |-> i, wd_deg |-> deg, ws |-> speed, ws_category |-> NaN, wd_direction |-> None]

DegInputs == {NaN} \cup {Some(d) : d \in (-MaxTurns * FullCircle)..(MaxTurns * FullCircle)}
SpeedInputs == {NaN} \cup {Some(s) : s \in (-MinSpeed)..MaxSpeed}

\* One direction, the speed column already cut (line 283 done, line 304 next).
InitDir ==
    /\ pc = "wr_dir"
    /\ shown = {"Wind Rose (Mawar Angin)"}
    /\ \E d \in DegInputs : df_sel = <<Row(0, d, NaN)>>
    /\ show_windrose = TRUE
    /\ InWindRose

SpecDir == InitDir /\ [][ApplyDegToDir]_vars

\* One speed, about to be cut (line 283 next).
InitCut ==
    /\ pc = "wr_cut"
    /\ shown = {"Wind Rose (Mawar Angin)"}
    /\ \E s \in SpeedInputs : df_sel = <<Row(0, NaN, s)>>
    /\ show_windrose = TRUE
    /\ InWindRose

SpecCut == InitCut /\ [][CutSpeed]_vars

\* A time-filtered table of up to MaxRows observations entering line 273.
DegSamples == {NaN, Some(0), Some(44), Some(45), Some(1440), Some(-4)}
SpeedSamples == {NaN, Some(-10), Some(0), Some(15), Some(120)}

Tables(n) == [1..n -> DegSamples \X SpeedSamples]

InitWind ==
    /\ pc = "windrose"
    /\ shown = {}
    /\ \E n \in 0..MaxRows : \E t \in Tables(n) :
          df_sel = [i \in 1..n |-> Row(i - 1, t[i][1], t[i][2])]
    /\ show_windrose \in BOOLEAN
    /\ InWindRose

SpecWind == InitWind /\ [][WindNext]_vars

(***************************************************************************)
(* Texts (Python str)                                                      *)
(***************************************************************************)
Digits == {"0", "1", "2", "3", "4", "5", "6", "7", "8", "9"}

\* str.isdigit(): a non-empty text of digits only
isdigit(t) == t # <<>> /\ \A i \in 1..Len(t) : t[i] \in Digits

RECURSIVE lstrip(_)
lstrip(t) == IF t # <<>> /\ Head(t) = " " THEN lstrip(Tail(t)) ELSE t

RECURSIVE rstrip(_)
rstrip(t) == IF t # <<>> /\ t[Len(t)] = " " THEN rstrip(SubSeq(t, 1, Len(t) - 1)) ELSE t

\* str.strip()
strip(t) == rstrip(lstrip(t))

lower_char(c) ==
    CASE c = "A" -> "a" [] c = "B" -> "b" [] c = "J" -> "j" [] OTHER -> c

\* str.lower()
lower(t) == [i \in 1..Len(t) |-> lower_char(t[i])]

\* Series.str.contains(pat), regex=True by default: re.search(pat, text).
\* Of the characters modelled, "." is the one regular-expression operator (any
\* character); letters, digits and the space stand for themselves.
str_contains(text, pat) ==
    \E off \in 0..(Len(text) - Len(pat)) :
        \A j \in 1..Len(pat) : pat[j] = "." \/ pat[j] = text[off + j]

(***************************************************************************)
(* The two cached fetches (lines 16-25, 38-44)                             *)
(***************************************************************************)
ADM_TTL == 3600
FORECAST_TTL == 300

\* st.cache_data(ttl=...): an entry is served while it is younger than ttl.
Fresh(entry, ttl, t) == t - entry.stored < ttl

\* The entries of a keyed cache that have not expired at time t.
Purge(c, ttl, t) == [k \in {x \in DOMAIN c : Fresh(c[x], ttl, t)} |-> c[k]]

Store(c, k, v, t) ==
    [x \in (DOMAIN c) \cup {k} |-> IF x = k THEN [value |-> v, stored |-> t] ELSE c[x]]

\* fetch_adm_mapping's result: the "data" rows with the provinsi_lower column.
adm_frame(data) ==
    [i \in 1..Len(data) |->
        [adm1 |-> data[i].adm1, provinsi |-> data[i].provinsi,
         provinsi_lower |-> lower(data[i].provinsi)]]

\* What the service answers GET <API_BASE>?adm1=k with at time t.
forecast_response(k, data, t) ==
    [lokasi |-> [adm1 |-> k], data |-> data, issued |-> t]

(***************************************************************************)
(* resolve_adm1 (lines 27-36) and its call (lines 97-100)                  *)
(***************************************************************************)
\* lines 32-36, given the frame fetch_adm_mapping returned
match_adm1(input_text, frame) ==
    LET input_clean == lower(strip(input_text))
        match == SelectSeq(frame, LAMBDA row : str_contains(row.provinsi_lower, input_clean))
    IN IF match # <<>> THEN Some(match[1].adm1) ELSE None

\* lines 98-100 and 102-103, once resolve_adm1 has returned
AfterResolve(result) ==
    /\ adm1' = result
    /\ IF result = None
         THEN /\ shown' = shown \cup {"error: Provinsi tidak ditemukan"}
              /\ pc' = "stop_not_found"
         ELSE /\ shown' = shown \cup {"Infografis Prakiraan Cuaca (BMKG)"}
              /\ pc' = "fetch"

Resolve ==
    /\ pc = "resolve"
    /\ IF isdigit(user_input)
         THEN /\ AfterResolve(Some(user_input))
              /\ UNCHANGED <<cache_adm, requests>>
         ELSE IF cache_adm # None /\ Fresh(cache_adm[1], ADM_TTL, now)
         THEN /\ AfterResolve(match_adm1(user_input, cache_adm[1].value))
              /\ UNCHANGED <<cache_adm, requests>>
         ELSE /\ requests' = Append(requests, "GET adm")
              /\ \E ok \in BOOLEAN :
                    IF ok
                      THEN /\ cache_adm' = Some([value |-> adm_frame(adm_table), stored |-> now])
                           /\ AfterResolve(match_adm1(user_input, adm_frame(adm_table)))
                      ELSE \* requests.get or raise_for_status raises; nothing catches it
                           /\ cache_adm' = None
                           /\ adm1' = adm1
                           /\ shown' = shown \cup {"exception: fetch_adm_mapping"}
                           /\ pc' = "exception"
    /\ UNCHANGED <<widgets, world, clock, cache_fc, raw, locs, df, start_dt, df_sel,
                   df_wind, fig_wr, exported>>

(***************************************************************************)
(* fetch_forecast's call (lines 105-110)                                   *)
(***************************************************************************)
\* A handler that goes back to the request after a failure.
on_fetch_error_retry == "fetch"

\* lines 108-110: st.error(...), st.stop()
on_fetch_error == "stop_transport"

FetchForecast ==
    /\ pc = "fetch"
    /\ LET live == Purge(cache_fc, FORECAST_TTL, now) IN
       IF adm1[1] \in DOMAIN live
         THEN /\ raw' = Some(live[adm1[1]].value)
              /\ cache_fc' = live
              /\ pc' = "entries"
              /\ UNCHANGED <<requests, shown>>
         ELSE /\ requests' = Append(requests, "GET forecast")
              /\ \E ok \in BOOLEAN :
                    IF ok
                      THEN LET resp == forecast_response(adm1[1], server_data, now) IN
                           /\ raw' = Some(resp)
                           /\ cache_fc' = Store(live, adm1[1], resp, now)
                           /\ pc' = "entries"
                           /\ shown' = shown
                      ELSE /\ raw' = raw
                           /\ cache_fc' = live
                           /\ shown' = shown \cup {"error: Gagal mengambil data dari BMKG"}
                           /\ pc' = on_fetch_error
    /\ UNCHANGED <<widgets, world, clock, cache_adm, adm1, locs, df, start_dt, df_sel,
                   df_wind, fig_wr, exported>>

(***************************************************************************)
(* Inputs of the resolver's specification                                  *)
(***************************************************************************)
MaxInputLen == 3    \* characters of the text input in SpecResolve

InputChars == {"a", "b", "B", " ", ".", "3", "5"}

Texts(n) == UNION {[1..m -> InputChars] : m \in 0..n}

TableA ==
    << [adm1 |-> <<"1", "1">>, provinsi |-> <<"A", "b", "a">>],
       [adm1 |-> <<"1", "2">>, provinsi |-> <<"B", "a", " ", "b">>],
       [adm1 |-> <<"3", "5">>, provinsi |-> <<"J", "a", "b", "b">>] >>

TableB ==
    << [adm1 |-> <<"3", "5">>, provinsi |-> <<"J", "a", "b", "b">>],
       [adm1 |-> <<"1", "2">>, provinsi |-> <<"B", "a", " ", "b">>],
       [adm1 |-> <<"1", "1">>, provinsi |-> <<"A", "b", "a">>] >>

\* The rest of the state of a run that is about to resolve its input.
AtStart ==
    /\ pc = "resolve" /\ shown = {}
    /\ requests = <<>> /\ adm1 = None /\ raw = None
    /\ entries = <<>> /\ mapping = <<>> /\ derived = <<>>
    /\ loc_choice = None /\ selected_entry = None
    /\ df = <<>> /\ start_dt = None /\ df_sel = <<>>
    /\ df_wind = <<>> /\ fig_wr = <<>> /\ exported = None

InitResolve ==
    /\ AtStart
    /\ \E n \in 0..MaxInputLen : user_input \in [1..n -> InputChars]
    /\ refresh = FALSE /\ show_map = FALSE /\ show_windrose = FALSE /\ show_table = FALSE
    /\ adm_table \in {TableA, TableB}
    /\ server_data = <<>>
    /\ now = 0 /\ ticks = 0
    /\ cache_adm \in {None, Some([value |-> adm_frame(adm_table), stored |-> 0])}
    /\ cache_fc = <<>>

SpecResolve == InitResolve /\ [][Resolve]_vars

(***************************************************************************)
(* flatten_cuaca_entry (lines 46-79)                                       *)
(*                                                                         *)
(* An entry is [lokasi, cuaca]: lokasi a record of optional texts, cuaca a *)
(* sequence of groups, a group a sequence of observations. An observation  *)
(* carries its fields as the JSON gave them: optional texts.  Of lokasi    *)
(* the model keeps kotkab, adm2 and timezone (the one with a default), of  *)
(* the numeric columns t, ws and wd_deg.                                   *)
(***************************************************************************)
DigitValue(c) ==
    CASE c = "0" -> 0 [] c = "1" -> 1 [] c = "2" -> 2 [] c = "3" -> 3 [] c = "4" -> 4
      [] c = "5" -> 5 [] c = "6" -> 6 [] c = "7" -> 7 [] c = "8" -> 8 [] c = "9" -> 9

RECURSIVE DecimalValue(_)
DecimalValue(t) ==
    IF t = <<>> THEN 0 ELSE 10 * DecimalValue(SubSeq(t, 1, Len(t) - 1)) + DigitValue(t[Len(t)])

\* A coercion that turns what it cannot parse into 0.
to_numeric_zero(x, unit) ==
    IF x # None /\ isdigit(x[1]) THEN Some(unit * DecimalValue(x[1]))
    ELSE IF x # None /\ Len(x[1]) > 1 /\ Head(x[1]) = "-" /\ isdigit(Tail(x[1]))
    THEN Some(-(unit * DecimalValue(Tail(x[1]))))
    ELSE Some(0)

\* pd.to_numeric(column, errors="coerce") on one cell: the number a text of
\* digits (with an optional sign) denotes, NaN for a missing cell and for any
\* other text.  The number is kept in the unit of its column.
to_numeric(x, unit) ==
    IF x # None /\ isdigit(x[1]) THEN Some(unit * DecimalValue(x[1]))
    ELSE IF x # None /\ Len(x[1]) > 1 /\ Head(x[1]) = "-" /\ isdigit(Tail(x[1]))
    THEN Some(-(unit * DecimalValue(Tail(x[1]))))
    ELSE NaN

\* The units of the numeric columns: t in degrees Celsius, ws in tenths of a
\* m/s, wd_deg in quarter degrees.
UnitOf(c) == CASE c = "ws" -> 10 [] c = "wd_deg" -> 4 [] OTHER -> 1

\* pd.to_datetime(text) inside try/except: a timestamp text is modelled by its
\* hour field, two digits below 24; anything else raises and gives NaT, a
\* missing one gives NaT.
to_datetime(x) ==
    IF x # None /\ Len(x[1]) = 2 /\ isdigit(x[1]) /\ DecimalValue(x[1]) < 24
      THEN Some(DecimalValue(x[1]))
      ELSE NaN

\* lines 52-71: the row made of one observation
flat_row(obs, lokasi) ==
    [weather_desc |-> obs.weather_desc,
     t |-> obs.t, ws |-> obs.ws, wd_deg |-> obs.wd_deg,
     utc_datetime |-> obs.utc_datetime, local_datetime |-> obs.local_datetime,
     adm2 |-> lokasi.adm2, kotkab |-> lokasi.kotkab,
     timezone |-> IF lokasi.timezone = None THEN Some(<<"+", "0", "7", "0", "0">>)
                  ELSE lokasi.timezone,
     utc_datetime_dt |-> to_datetime(obs.utc_datetime),
     local_datetime_dt |-> to_datetime(obs.local_datetime)]

\* lines 50-51: the observations of all groups, in order
RECURSIVE leaf_rows(_, _)
leaf_rows(cuaca, lokasi) ==
    IF cuaca = <<>> THEN <<>>
    ELSE [j \in 1..Len(Head(cuaca)) |-> flat_row(Head(cuaca)[j], lokasi)]
            \o leaf_rows(Tail(cuaca), lokasi)

\* lines 72-79: DataFrame(rows) with its RangeIndex, the numeric columns coerced;
\* the columns the wind rose adds later are there, empty.
flatten_cuaca_entry(entry) ==
    LET rows == leaf_rows(entry.cuaca, entry.lokasi) IN
    [i \in 1..Len(rows) |->
        [idx |-> i - 1,
         weather_desc |-> rows[i].weather_desc,
         t |-> to_numeric(rows[i].t, UnitOf("t")),
         ws |-> to_numeric(rows[i].ws, UnitOf("ws")),
         wd_deg |-> to_numeric(rows[i].wd_deg, UnitOf("wd_deg")),
         utc_datetime |-> rows[i].utc_datetime,
         local_datetime |-> rows[i].local_datetime,
         adm2 |-> rows[i].adm2, kotkab |-> rows[i].kotkab, timezone |-> rows[i].timezone,
         utc_datetime_dt |-> rows[i].utc_datetime_dt,
         local_datetime_dt |-> rows[i].local_datetime_dt,
         ws_category |-> NaN, wd_direction |-> None]]

\* line 137
Flatten ==
    /\ pc = "flatten"
    /\ df' = flatten_cuaca_entry(selected_entry[1])
    /\ pc' = "check_df"
    /\ UNCHANGED <<shown, widgets, world, clock, caches, front, locs, start_dt, df_sel,
                   df_wind, fig_wr, exported>>

(***************************************************************************)
(* Inputs of the flattener's specification                                 *)
(***************************************************************************)
MaxGroups == 2      \* groups of an entry in SpecFlatten
MaxGroupLen == 2    \* observations of a group in SpecFlatten

Txt2(a, b) == Some(<<a, b>>)

ObsSamples ==
    { [weather_desc |-> "Cerah", t |-> Txt2("2", "7"), ws |-> Some(<<"3">>),
       wd_deg |-> Txt2("9", "0"), utc_datetime |-> Txt2("0", "0"),
       local_datetime |-> Txt2("0", "7")],
      [weather_desc |-> "Hujan", t |-> Some(<<"0">>), ws |-> Some(<<"x">>),
       wd_deg |-> Some(<<>>), utc_datetime |-> Txt2("0", "3"),
       local_datetime |-> Txt2("1", "0")],
      [weather_desc |-> "Berawan", t |-> None, ws |-> Some(<<"0">>),
       wd_deg |-> Txt2("-", "5"), utc_datetime |-> Txt2("x", "x"),
       local_datetime |-> Txt2("2", "5")] }

LokasiSamples ==
    { [kotkab |-> Some(<<"A">>), adm2 |-> Some(<<"x">>), timezone |-> None],
      [kotkab |-> None, adm2 |-> None, timezone |-> Some(<<"+", "0", "8", "0", "0">>)] }

SeqsUpTo(S, n) == UNION {[1..m -> S] : m \in 0..n}

EntryInputs ==
    [lokasi : LokasiSamples, cuaca : SeqsUpTo(SeqsUpTo(ObsSamples, MaxGroupLen), MaxGroups)]

InitFlatten ==
    /\ pc = "flatten" /\ shown = {}
    /\ user_input = <<>> /\ refresh = FALSE /\ show_map = FALSE /\ show_windrose = FALSE /\ show_table = FALSE
    /\ adm_table = <<>> /\ server_data = <<>> /\ now = 0 /\ ticks = 0
    /\ cache_adm = None /\ cache_fc = <<>>
    /\ requests = <<>> /\ adm1 = None /\ raw = None
    /\ entries = <<>> /\ mapping = <<>> /\ derived = <<>> /\ loc_choice = None
    /\ \E e \in EntryInputs : selected_entry = Some(e)
    /\ df = <<>> /\ start_dt = None /\ df_sel = <<>>
    /\ df_wind = <<>> /\ fig_wr = <<>> /\ exported = None

SpecFlatten == InitFlatten /\ [][Flatten]_vars

(***************************************************************************)
(* The location table (lines 112-136)                                      *)
(***************************************************************************)
\* Python truthiness of an optional text: None and "" are false.
Truthy(x) == x # None /\ x[1] # <<>>

DigitChar(d) ==
    CASE d = 0 -> "0" [] d = 1 -> "1" [] d = 2 -> "2" [] d = 3 -> "3" [] d = 4 -> "4"
      [] d = 5 -> "5" [] d = 6 -> "6" [] d = 7 -> "7" [] d = 8 -> "8" [] d = 9 -> "9"

\* str(n), n >= 0
RECURSIVE str(_)
str(n) == IF n < 10 THEN <<DigitChar(n)>> ELSE str(n \div 10) \o <<DigitChar(n % 10)>>

\* f"Lokasi {n}"
LokasiText(n) == <<"L", "o", "k", "a", "s", "i", " ">> \o str(n)

\* line 124: kotkab or adm2 or f"Lokasi {len(mapping)+1}"
label_of(lok, size) ==
    IF Truthy(lok.kotkab) THEN lok.kotkab[1]
    ELSE IF Truthy(lok.adm2) THEN lok.adm2[1]
    ELSE LokasiText(size + 1)

\* line 125: adm2 or kotkab or str(len(mapping)+1)
key_of(lok, size) ==
    IF Truthy(lok.adm2) THEN lok.adm2[1]
    ELSE IF Truthy(lok.kotkab) THEN lok.kotkab[1]
    ELSE str(size + 1)

HasLabel(d, label) == \E i \in 1..Len(d) : d[i].label = label

\* A dict assignment that keeps the value a key already has (setdefault).
dict_setdefault(d, label, value) ==
    IF HasLabel(d, label) THEN d
    ELSE Append(d, [label |-> label, value |-> value])

\* d[label] = value on a Python dict, which keeps its keys in insertion order:
\* the value of a key already there is replaced in place.
dict_set(d, label, value) ==
    IF HasLabel(d, label)
      THEN [i \in 1..Len(d) |-> IF d[i].label = label THEN [label |-> label, value |-> value]
                                ELSE d[i]]
      ELSE Append(d, [label |-> label, value |-> value])

dict_get(d, label) == d[CHOOSE i \in 1..Len(d) : d[i].label = label].value

\* lines 112-116
CheckEntries ==
    /\ pc = "entries"
    /\ entries' = raw[1].data
    /\ IF raw[1].data = <<>>
         THEN /\ shown' = shown \cup {"warning: Tidak ada data untuk ADM1 ini"}
              /\ pc' = "stop_no_entries"
         ELSE /\ shown' = shown
              /\ pc' = "mapping"
    /\ UNCHANGED <<widgets, world, clock, caches, front, mapping, derived, loc_choice,
                   selected_entry, df, start_dt, df_sel, df_wind, fig_wr, exported>>

\* lines 122-126: one turn of the loop, on the entry after those already done
MapEntry ==
    /\ pc = "mapping"
    /\ Len(derived) < Len(entries)
    /\ LET e == entries[Len(derived) + 1]
           label == label_of(e.lokasi, Len(mapping))
           key == key_of(e.lokasi, Len(mapping))
       IN /\ mapping' = dict_set(mapping, label, [key |-> key, entry |-> e])
          /\ derived' = Append(derived, label)
    /\ UNCHANGED <<pc, shown, widgets, world, clock, caches, front, entries, loc_choice,
                   selected_entry, df, start_dt, df_sel, df_wind, fig_wr, exported>>

\* lines 128-136: the selectbox offers the keys of mapping, the user takes one
Select ==
    /\ pc = "mapping"
    /\ Len(derived) = Len(entries)
    /\ \E i \in 1..Len(mapping) :
          /\ loc_choice' = Some(mapping[i].label)
          /\ selected_entry' = Some(dict_get(mapping, mapping[i].label).entry)
    /\ shown' = shown \cup {"Jumlah lokasi tersedia"}
    /\ pc' = "flatten"
    /\ UNCHANGED <<widgets, world, clock, caches, front, entries, mapping, derived,
                   df, start_dt, df_sel, df_wind, fig_wr, exported>>

(***************************************************************************)
(* Inputs of the location table's specification                            *)
(***************************************************************************)
MaxEntries == 3     \* entries of a response in SpecMapping

MapLokasi ==
    { [kotkab |-> k, adm2 |-> a, timezone |-> None] :
        k \in {None, Some(<<>>), Some(<<"A">>), Some(LokasiText(2))},
        a \in {None, Some(<<"A">>), Some(<<"x">>)} }

InitMapping ==
    /\ pc = "mapping" /\ shown = {}
    /\ user_input = <<>> /\ refresh = FALSE /\ show_map = FALSE
    /\ show_windrose = FALSE /\ show_table = FALSE
    /\ adm_table = <<>> /\ server_data = <<>> /\ now = 0 /\ ticks = 0
    /\ cache_adm = None /\ cache_fc = <<>>
    /\ requests = <<>> /\ adm1 = None /\ raw = None
    /\ \E n \in 1..MaxEntries : \E l \in [1..n -> MapLokasi] :
          entries = [i \in 1..n |-> [lokasi |-> l[i], cuaca |-> <<>>]]
    /\ mapping = <<>> /\ derived = <<>> /\ loc_choice = None /\ selected_entry = None
    /\ df = <<>> /\ start_dt = None /\ df_sel = <<>>
    /\ df_wind = <<>> /\ fig_wr = <<>> /\ exported = None

SpecMapping == InitMapping /\ [][MapEntry \/ Select]_vars

(***************************************************************************)
(* The script after the flattener (lines 138-270, 343-359)                 *)
(***************************************************************************)
\* A frame sorted by an optional integer column, absent values last
\* (DataFrame.sort_values): insertion of each row after the rows that do not
\* come after it.
ComesAfter(a, b, col) ==
    IF isna(a[col]) THEN FALSE
    ELSE isna(b[col]) \/ b[col][1] > a[col][1]

RECURSIVE insert_sorted(_, _, _)
insert_sorted(sorted, row, col) ==
    IF sorted = <<>> THEN <<row>>
    ELSE IF ComesAfter(row, Head(sorted), col) THEN <<row>> \o sorted
    ELSE <<Head(sorted)>> \o insert_sorted(Tail(sorted), row, col)

RECURSIVE sort_values(_, _)
sort_values(frame, col) ==
    IF frame = <<>> THEN <<>>
    ELSE insert_sorted(sort_values(SubSeq(frame, 1, Len(frame) - 1), col),
                       frame[Len(frame)], col)

\* The present values of a column.
Present(frame, col) == {frame[i][col][1] : i \in {j \in 1..Len(frame) : notna(frame[j][col])}}

SetMin(S) == CHOOSE x \in S : \A y \in S : x <= y
SetMax(S) == CHOOSE x \in S : \A y \in S : y <= x

\* lines 161-162: the rows whose local time lies in the range, NaT in none
select_range(frame, lo, hi) ==
    SelectSeq(frame, LAMBDA r : notna(r.local_datetime_dt)
                                /\ lo <= r.local_datetime_dt[1]
                                /\ r.local_datetime_dt[1] <= hi)

\* lines 138-145
CheckDf ==
    /\ pc = "check_df"
    /\ IF df = <<>>
         THEN /\ shown' = shown \cup {"warning: Data cuaca kosong untuk lokasi ini"}
              /\ pc' = "stop_empty_df"
              /\ df' = df
         ELSE /\ shown' = shown
              /\ pc' = "filter"
              /\ df' = sort_values(df, "utc_datetime_dt")
    /\ UNCHANGED <<widgets, world, clock, caches, front, locs, start_dt, df_sel,
                   df_wind, fig_wr, exported>>

\* lines 146-162: the slider runs from the least to the greatest local time and
\* the user takes a range in it.  With no local time at all both bounds are NaT:
\* the widget raises, or hands NaT back and the mask selects nothing.
Filter ==
    /\ pc = "filter"
    /\ LET times == Present(df, "local_datetime_dt") IN
       IF times = {}
         THEN \/ /\ pc' = "exception"
                 /\ shown' = shown \cup {"exception: slider"}
                 /\ UNCHANGED <<start_dt, df_sel>>
              \/ /\ pc' = "trend"
                 /\ start_dt' = None
                 /\ df_sel' = <<>>
                 /\ shown' = shown
         ELSE \E lo \in SetMin(times)..SetMax(times) : \E hi \in lo..SetMax(times) :
                 /\ start_dt' = Some(<<lo, hi>>)
                 /\ df_sel' = select_range(df, lo, hi)
                 /\ pc' = "trend"
                 /\ shown' = shown
    /\ UNCHANGED <<widgets, world, clock, caches, front, locs, df, df_wind, fig_wr, exported>>

\* Where the script goes on after the warning of an empty range (line 188).
after_empty_range_stops == "stop_empty_range"
after_empty_range == "table"

\* lines 167-201: the four metrics, then the trend charts or the warning
Trend ==
    /\ pc = "trend"
    /\ IF df_sel = <<>>
         THEN /\ shown' = shown \cup {"metrics", "warning: Tidak ada data di rentang waktu yang dipilih"}
              /\ pc' = after_empty_range
         ELSE /\ shown' = shown \cup {"metrics", "fig_t", "fig_hu", "fig_ws", "fig_tp"}
              /\ pc' = "table"
    /\ UNCHANGED <<widgets, world, clock, caches, front, locs, df, start_dt, df_sel,
                   df_wind, fig_wr, exported>>

\* lines 206-270: the table of the selected rows and, if asked for, the map
TableAndMap ==
    /\ pc = "table"
    /\ shown' = shown \cup {"Tabel Cuaca (Ringkas)"}
                      \cup (IF show_map THEN {"Peta Lokasi"} ELSE {})
    /\ pc' = "windrose"
    /\ UNCHANGED <<widgets, world, clock, caches, front, locs, df, start_dt, df_sel,
                   df_wind, fig_wr, exported>>

\* lines 343-359: the raw table if asked for, and the two download buttons
Export ==
    /\ pc = "show_table"
    /\ shown' = shown \cup {"Ekspor Data"}
                      \cup (IF show_table THEN {"Tabel Data Mentah"} ELSE {})
    /\ exported' = Some(df_sel)
    /\ pc' = "done"
    /\ UNCHANGED <<widgets, world, clock, caches, front, locs, df, start_dt, df_sel,
                   df_wind, fig_wr>>

RunNext ==
    \/ Resolve \/ FetchForecast \/ CheckEntries \/ MapEntry \/ Select \/ Flatten
    \/ CheckDf \/ Filter \/ Trend \/ TableAndMap \/ WindNext \/ Export

(***************************************************************************)
(* Inputs of the specification of one run                                  *)
(***************************************************************************)
ObsCerah == CHOOSE o \in ObsSamples : o.weather_desc = "Cerah"
ObsHujan == CHOOSE o \in ObsSamples : o.weather_desc = "Hujan"
ObsBerawan == CHOOSE o \in ObsSamples : o.weather_desc = "Berawan"
LokasiA == CHOOSE l \in LokasiSamples : l.kotkab # None
LokasiB == CHOOSE l \in LokasiSamples : l.kotkab = None

\* The "data" lists the service may answer with: no location; one location
\* without observations; a location with observations at 07, 10 and an
\* unreadable local time, and one without; a location whose one observation
\* has no readable local time.
RunData ==
    { <<>>,
      << [lokasi |-> LokasiA, cuaca |-> <<>>] >>,
      << [lokasi |-> LokasiA, cuaca |-> << <<ObsCerah, ObsHujan>>, <<ObsBerawan>> >>],
         [lokasi |-> LokasiB, cuaca |-> << <<>> >>] >>,
      << [lokasi |-> LokasiB, cuaca |-> << <<ObsBerawan>> >>] >> }

RunInputs == { <<"3", "5">>, <<" ", "B", "a">>, <<"b", "b", "b">>, <<".">> }

InitRun ==
    /\ AtStart
    /\ user_input \in RunInputs
    /\ refresh = FALSE
    /\ show_map \in BOOLEAN /\ show_windrose \in BOOLEAN /\ show_table \in BOOLEAN
    /\ adm_table = TableA
    /\ server_data \in RunData
    /\ now = FORECAST_TTL /\ ticks = 0
    /\ cache_adm \in {None, Some([value |-> adm_frame(adm_table), stored |-> 0])}
    /\ cache_fc \in {<<>>,
                     [k \in {<<"3", "5">>} |->
                         [value |-> forecast_response(k, server_data, 1), stored |-> 1]],
                     [k \in {<<"3", "5">>} |->
                         [value |-> forecast_response(k, server_data, 0), stored |-> 0]]}

SpecRun == InitRun /\ [][RunNext]_vars

(***************************************************************************)
(* Reruns and the clock: the specification of the caches                   *)
(***************************************************************************)
MaxTicks == 3       \* advances of the clock in SpecCache

TickSteps == {1, 299, 3300}

CacheInputs == { <<"3", "5">>, <<"1", "1">>, <<"b">> }

\* A rerun that clears what is cached when the button was pressed.
cleared_on_refresh(c, pressed) == IF pressed THEN <<>> ELSE c

\* What a rerun does to a cache: line 87 stores the button's state in refresh
\* and nothing reads it, so the cache is as it was.
kept_on_rerun(c, pressed) == c

\* Streamlit runs the script again from the top on any interaction with a
\* widget: here a new text, or a press of "Ambil ulang data".
Rerun ==
    /\ user_input' \in CacheInputs
    /\ refresh' \in BOOLEAN
    /\ cache_adm' = kept_on_rerun(cache_adm, refresh')
    /\ cache_fc' = kept_on_rerun(cache_fc, refresh')
    /\ pc' = "resolve"
    /\ shown' = {}
    /\ requests' = <<>> /\ adm1' = None /\ raw' = None
    /\ UNCHANGED <<show_map, show_windrose, show_table, world, clock, locs, df,
                   start_dt, df_sel, df_wind, fig_wr, exported>>

Tick ==
    /\ ticks < MaxTicks
    /\ \E d \in TickSteps : now' = now + d
    /\ ticks' = ticks + 1
    /\ UNCHANGED <<pc, shown, widgets, world, caches, front, locs, df, start_dt, df_sel,
                   df_wind, fig_wr, exported>>

InitCache ==
    /\ AtStart
    /\ user_input \in CacheInputs
    /\ refresh = FALSE
    /\ show_map = FALSE /\ show_windrose = FALSE /\ show_table = FALSE
    /\ adm_table = TableA
    /\ server_data = <<>>
    /\ now = 0 /\ ticks = 0
    /\ cache_adm = None
    /\ cache_fc = <<>>

SpecCache == InitCache /\ [][Resolve \/ FetchForecast \/ Rerun \/ Tick]_vars

(***************************************************************************)
(* Claims about the wind rose                                              *)
(***************************************************************************)
Sectors == 0..15
SectorName(k) == dir_labels[k + 1]
SectorSet == {SectorName(k) : k \in Sectors}
LabelSet == {labels[i] : i \in 1..Len(labels)}
Cells == SectorSet \X LabelSet

\* n, a direction in [0, 360), lies in the half-open bin of sector k,
\* [centre - 11.25, centre + 11.25), the bin of N wrapping around 0.
InSector(k, n) ==
    IF k = 0 THEN n >= FullCircle - HalfSector \/ n < HalfSector
    ELSE k * SectorWidth - HalfSector <= n /\ n < k * SectorWidth + HalfSector

\* d mod 360: the n in [0, 360) with d = 360 q + n.
IsNormOf(n, d) ==
    /\ 0 <= n /\ n < FullCircle
    /\ \E q \in (-(MaxTurns + 2))..(MaxTurns + 2) : d = q * FullCircle + n

DirApplied == pc \in {"wr_dropna", "wr_chart"}

\* C1: every present direction d gets the label of the one sector whose
\* half-open bin [centre - 11.25, centre + 11.25) contains d mod 360 (a boundary
\* value goes to the higher sector, 0 and 360 to N), the index stays inside
\* the label table, and an absent direction gets no label.
C1_SectorAssignment ==
    DirApplied =>
        \A i \in 1..Len(df_sel) :
            LET r == df_sel[i] IN
            IF isna(r.wd_deg) THEN isna(r.wd_direction)
            ELSE /\ dir_index(r.wd_deg[1]) \in 0..(Len(dir_labels) - 1)
                 /\ \E k \in Sectors :
                       /\ \E n \in {r.wd_deg[1] - q * FullCircle :
                                       q \in (-(MaxTurns + 2))..(MaxTurns + 2)} :
                             IsNormOf(n, r.wd_deg[1]) /\ InSector(k, n)
                       /\ r.wd_direction = Some(SectorName(k))
                 /\ (r.wd_deg[1] \in {0, FullCircle} => r.wd_direction = Some("N"))

\* A direction exactly on the boundary 11.25 has been assigned to NNE,
\* the higher sector.
C1_Witness ==
    /\ DirApplied
    /\ Len(df_sel) = 1
    /\ df_sel[1].wd_deg = Some(HalfSector)
    /\ df_sel[1].wd_direction = Some("NNE")

\* The five classes of the claim, in tenths: [0,2), [2,5), [5,10), [10,20), [20,inf).
ClaimEdges == <<0, 20, 50, 100, 200>>

\* The half-open interval <<low, high>> of the class a table of edges gives s;
\* high is absent for the class that runs to infinity.
IntervalIn(edges, s) ==
    LET i == CHOOSE j \in 1..Len(edges) :
                 edges[j] <= s /\ (j = Len(edges) \/ s < edges[j + 1])
    IN <<edges[i], IF i = Len(edges) THEN <<>> ELSE <<edges[i + 1]>> >>

\* The interval of the class named by a label of the code.
IntervalOf(label) ==
    LET i == CHOOSE j \in 1..Len(labels) : labels[j] = label
    IN <<bins[i], IF i = Len(bins) THEN <<>> ELSE <<bins[i + 1]>> >>

SpeedCut == pc \in {"wr_dir", "wr_dropna", "wr_chart"}

\* C2 as claimed: every speed s >= 0 is put in the one of the five classes
\* [0,2), [2,5), [5,10), [10,20), [20,inf) that contains it.
C2_FiveClasses ==
    SpeedCut =>
        \A i \in 1..Len(df_sel) :
            LET r == df_sel[i] IN
            (notna(r.ws) /\ r.ws[1] >= 0) =>
                /\ notna(r.ws_category)
                /\ IntervalOf(r.ws_category[1]) = IntervalIn(ClaimEdges, r.ws[1])

\* C2 amended: every speed s >= 0 is put in exactly one of the six classes
\* [0,1.5), [1.5,3.3), [3.3,5.5), [5.5,7.9), [7.9,10.7), [10.7,inf), closed on
\* the low side and open on the high side: 0 is in the first class and a speed
\* equal to an edge is in the class that starts there.
C2_SixClasses ==
    SpeedCut =>
        \A i \in 1..Len(df_sel) :
            LET r == df_sel[i]
                s == r.ws[1]
                c == r.ws_category
            IN (notna(r.ws) /\ s >= 0) =>
                /\ (0 <= s /\ s < 15) => c = Some("Tenang (<1.5)")
                /\ (15 <= s /\ s < 33) => c = Some("Lemah (1.5-3.3)")
                /\ (33 <= s /\ s < 55) => c = Some("Sedang (3.3-5.5)")
                /\ (55 <= s /\ s < 79) => c = Some("Kuat (5.5-7.9)")
                /\ (79 <= s /\ s < 107) => c = Some("Sangat Kuat (7.9-10.7)")
                /\ (107 <= s) => c = Some("Badai (>10.7)")

\* A speed exactly on the edge 1.5 has been put in the class that starts at 1.5.
C2_Witness ==
    /\ SpeedCut
    /\ Len(df_sel) = 1
    /\ df_sel[1].ws = Some(15)
    /\ df_sel[1].ws_category = Some("Lemah (1.5-3.3)")

WindDone == pc = "show_table" /\ "Wind Rose (Mawar Angin)" \in shown
Dropped == pc = "wr_chart" \/ WindDone

InWind(r) == \E j \in 1..Len(df_wind) : df_wind[j].idx = r.idx

\* What C3 states besides the membership condition: a row lacking a field gets
\* no default sector or class, a row is in df_wind at most once, and every bar
\* of the chart lies in exactly one (sector, class) cell.
C3_Rest ==
    /\ \A i \in 1..Len(df_sel) :
          LET r == df_sel[i] IN
          /\ isna(r.wd_deg) => isna(r.wd_direction) /\ ~InWind(r)
          /\ isna(r.ws) => isna(r.ws_category) /\ ~InWind(r)
          /\ Cardinality({j \in 1..Len(df_wind) : df_wind[j].idx = r.idx}) <= 1
    /\ \A j \in 1..Len(df_wind) : \E i \in 1..Len(df_sel) : df_sel[i] = df_wind[j]
    /\ (WindDone /\ df_wind # <<>>) =>
          /\ Len(fig_wr) = Len(df_wind)
          /\ \A j \in 1..Len(fig_wr) :
                Cardinality({c \in Cells : fig_wr[j].theta = c[1] /\ fig_wr[j].color = c[2]}) = 1

RECURSIVE SumCells(_, _)
SumCells(fig, cells) ==
    IF cells = {} THEN 0
    ELSE LET c == CHOOSE x \in cells : TRUE
         IN CellValue(fig, c[1], c[2]) + SumCells(fig, cells \ {c})

CountIn(frame, theta, color) ==
    Cardinality({j \in 1..Len(frame) :
                    frame[j].wd_direction = Some(theta) /\ frame[j].ws_category = Some(color)})

NoWindData ==
    /\ fig_wr = <<>>
    /\ "fig_wr" \notin shown
    /\ "warning: Tidak cukup data kecepatan dan arah angin" \in shown

\* C4 as claimed: each cell's value is 100 * count / N and the values sum to
\* 100 when N > 0; with N = 0 there is the 'no data' warning and no chart.
C4_Percentages ==
    WindDone =>
        IF df_wind = <<>> THEN NoWindData
        ELSE /\ "fig_wr" \in shown
             /\ \A c \in Cells :
                   CellValue(fig_wr, c[1], c[2]) * Len(df_wind) = 100 * CountIn(df_wind, c[1], c[2])
             /\ SumCells(fig_wr, Cells) = 100

\* C4 amended: each cell's value is the number of qualifying observations in
\* the cell (every row is a bar of radius 1, stacked), so the values sum to N;
\* with N = 0 there is the 'no data' warning and no chart.
C4_Counts ==
    WindDone =>
        IF df_wind = <<>> THEN NoWindData
        ELSE /\ "fig_wr" \in shown
             /\ \A c \in Cells : CellValue(fig_wr, c[1], c[2]) = CountIn(df_wind, c[1], c[2])
             /\ SumCells(fig_wr, Cells) = Len(df_wind)

\* Two qualifying observations of one cell have been drawn as a bar of length 2.
C4_Witness ==
    /\ WindDone
    /\ Len(df_wind) = 2
    /\ CellValue(fig_wr, "N", "Tenang (<1.5)") = 2

(***************************************************************************)
(* Claims about the resolver                                               *)
(***************************************************************************)
\* pat occurs in text as a literal substring.
LiteralContains(text, pat) ==
    \E off \in 0..(Len(text) - Len(pat)) : SubSeq(text, off + 1, off + Len(pat)) = pat

Resolved == pc \in {"fetch", "stop_not_found"}

\* C5: a pure numeric input is returned unchanged and the province table is
\* not consulted; any other input gives the adm1 of the first row, in table
\* order, whose province name contains the trimmed, lower-cased input as a
\* literal substring, and 'not found' exactly when no name contains it.
C5_LiteralSubstring ==
    Resolved =>
        IF isdigit(user_input)
          THEN adm1 = Some(user_input) /\ requests = <<>>
          ELSE LET hits == {i \in 1..Len(adm_table) :
                               LiteralContains(lower(adm_table[i].provinsi),
                                               lower(strip(user_input)))}
               IN IF hits = {} THEN adm1 = None /\ pc = "stop_not_found"
                  ELSE adm1 = Some(adm_table[CHOOSE i \in hits : \A j \in hits : i <= j].adm1)

(***************************************************************************)
(* Claims about the flattener                                              *)
(***************************************************************************)
\* The number each raw numeric cell of the samples denotes, written out; a
\* cell outside this table denotes none.
DenotedNumber(x) ==
    CASE x = Txt2("2", "7") -> Some(27)
      [] x = Some(<<"3">>) -> Some(3)
      [] x = Txt2("9", "0") -> Some(90)
      [] x = Some(<<"0">>) -> Some(0)
      [] x = Txt2("-", "5") -> Some(-5)
      [] OTHER -> <<>>

\* The hour each raw timestamp of the samples denotes, written out.
DenotedHour(x) ==
    CASE x = Txt2("0", "0") -> Some(0)
      [] x = Txt2("0", "7") -> Some(7)
      [] x = Txt2("0", "3") -> Some(3)
      [] x = Txt2("1", "0") -> Some(10)
      [] OTHER -> <<>>

Scaled(x, unit) == IF x = <<>> THEN <<>> ELSE Some(unit * x[1])

\* The position in the output of observation j of group g.
LeafPos(cuaca, g, j) == SumSeq([h \in 1..(g - 1) |-> Len(cuaca[h])]) + j

Flattened == pc = "check_df"

\* C6: the output has exactly one record per leaf sample, in input order
\* (group order, then order within the group), each with the entry's location
\* metadata; an entry without groups, or with empty groups only, gives an
\* empty result; a numeric or timestamp field that does not parse is absent
\* (never 0) in that field only, the record and its other fields are kept.
C6_Flatten ==
    Flattened =>
        LET e == selected_entry[1]
            cuaca == e.cuaca
        IN /\ Len(df) = SumSeq([g \in 1..Len(cuaca) |-> Len(cuaca[g])])
           /\ \A g \in 1..Len(cuaca) : \A j \in 1..Len(cuaca[g]) :
                 LET o == cuaca[g][j]
                     r == df[LeafPos(cuaca, g, j)]
                 IN /\ r.weather_desc = o.weather_desc
                    /\ r.utc_datetime = o.utc_datetime
                    /\ r.local_datetime = o.local_datetime
                    /\ r.kotkab = e.lokasi.kotkab
                    /\ r.adm2 = e.lokasi.adm2
                    /\ r.timezone \in {e.lokasi.timezone, Some(<<"+", "0", "7", "0", "0">>)}
                    /\ (e.lokasi.timezone # None => r.timezone = e.lokasi.timezone)
                    /\ r.t = DenotedNumber(o.t)
                    /\ r.ws = Scaled(DenotedNumber(o.ws), 10)
                    /\ r.wd_deg = Scaled(DenotedNumber(o.wd_deg), 4)
                    /\ r.utc_datetime_dt = DenotedHour(o.utc_datetime)
                    /\ r.local_datetime_dt = DenotedHour(o.local_datetime)

\* Two groups have been flattened; the second record, of the first group, has
\* lost its unparseable speed and direction and kept its temperature 0, and
\* the third, of the second group, has lost its timestamps and kept the rest.
C6_Witness ==
    /\ Flattened
    /\ Len(selected_entry[1].cuaca) = 2
    /\ Len(df) = 3
    /\ df[2].weather_desc = "Hujan" /\ isna(df[2].ws) /\ df[2].t = Some(0)
    /\ df[3].weather_desc = "Berawan" /\ isna(df[3].utc_datetime_dt)
    /\ df[3].ws = Some(0) /\ df[3].wd_deg = Some(-20)

\* An entry whose groups are all empty has been flattened to the empty table.
C6_WitnessEmpty ==
    /\ Flattened
    /\ selected_entry[1].cuaca = << <<>>, <<>> >>
    /\ df = <<>>

(***************************************************************************)
(* Claims about the location table                                         *)
(***************************************************************************)
MappingBuilt == pc \in {"mapping", "flatten"} /\ Len(derived) = Len(entries)

\* The label entry i derives: its kotkab if that is a non-empty text, else its
\* adm2 if that is one, else a generated "Lokasi n".
IsDerivedLabel(i, label) ==
    LET lok == entries[i].lokasi IN
    IF lok.kotkab # None /\ lok.kotkab # Some(<<>>) THEN label = lok.kotkab[1]
    ELSE IF lok.adm2 # None /\ lok.adm2 # Some(<<>>) THEN label = lok.adm2[1]
    ELSE \E n \in 1..Len(entries) : label = LokasiText(n)

LastWith(label) ==
    CHOOSE i \in 1..Len(derived) :
        derived[i] = label /\ \A j \in 1..Len(derived) : derived[j] = label => j <= i

\* C10: once the table is built from a non-empty list of entries, every
\* selectable label maps to an entry of the response whose derived label is
\* that label; of the entries that derive one label the last in response
\* order is the selectable one; and the number of locations shown,
\* len(mapping), is the number of distinct labels, between 1 and the number of
\* entries.  The entry handed on is the one the chosen label maps to.
C10_LocationTable ==
    MappingBuilt =>
        /\ \A i \in 1..Len(derived) : IsDerivedLabel(i, derived[i])
        /\ \A m \in 1..Len(mapping) :
              /\ \E i \in 1..Len(entries) : derived[i] = mapping[m].label
              /\ mapping[m].value.entry = entries[LastWith(mapping[m].label)]
              /\ \A m2 \in 1..Len(mapping) : mapping[m2].label = mapping[m].label => m2 = m
        /\ Len(mapping) = Cardinality({derived[i] : i \in 1..Len(derived)})
        /\ 1 <= Len(mapping) /\ Len(mapping) <= Len(entries)
        /\ pc = "flatten" =>
              /\ \E m \in 1..Len(mapping) :
                    loc_choice = Some(mapping[m].label)
                    /\ selected_entry = Some(mapping[m].value.entry)

\* Two entries with the same kotkab and different adm2 have been mapped and
\* the second of them has been selected.
C10_Witness ==
    /\ pc = "flatten"
    /\ Len(entries) >= 2
    /\ derived[1] = derived[2]
    /\ entries[1] # entries[2]
    /\ Len(mapping) < Len(entries)
    /\ selected_entry = Some(entries[2])

(***************************************************************************)
(* Claims about a run                                                      *)
(***************************************************************************)
CountOf(seq, x) == Cardinality({i \in 1..Len(seq) : seq[i] = x})

\* Nothing of lines 112-359 has happened.
NothingAfterFetch ==
    /\ entries = <<>> /\ mapping = <<>> /\ derived = <<>>
    /\ loc_choice = None /\ selected_entry = None
    /\ df = <<>> /\ start_dt = None /\ df_sel = <<>> /\ df_wind = <<>> /\ fig_wr = <<>>
    /\ exported = None
    /\ shown \cap {"Jumlah lokasi tersedia", "metrics", "fig_t", "Tabel Cuaca (Ringkas)",
                   "Peta Lokasi", "fig_wr", "Tabel Data Mentah", "Ekspor Data"} = {}

\* C7: (a) when the resolver returns 'not found' the run halts on the
\* resolution error and no forecast request is sent; (b) when fetch_forecast
\* raises the run halts on the transport error and none of the later steps
\* runs; (c) each of the two HTTP requests is sent at most once in a run.  A
\* halted run takes no further step.
C7_TerminalFailures ==
    /\ [](/\ (adm1 = None /\ pc # "resolve") => pc \in {"stop_not_found", "exception"}
          /\ pc = "stop_not_found" =>
                /\ "error: Provinsi tidak ditemukan" \in shown
                /\ CountOf(requests, "GET forecast") = 0
                /\ raw = None
                /\ NothingAfterFetch
          /\ (CountOf(requests, "GET forecast") > 0 /\ raw = None) => pc = "stop_transport"
          /\ pc = "stop_transport" =>
                /\ "error: Gagal mengambil data dari BMKG" \in shown
                /\ raw = None
                /\ NothingAfterFetch
          /\ CountOf(requests, "GET adm") <= 1
          /\ CountOf(requests, "GET forecast") <= 1)
    /\ [][pc \notin {"stop_not_found", "stop_transport", "exception"}]_vars

\* A name has been resolved with one request, the forecast request has failed
\* and the run has halted there.
C7_Witness ==
    /\ pc = "stop_transport"
    /\ requests = <<"GET adm", "GET forecast">>

NoExport == exported = None /\ "Ekspor Data" \notin shown

\* C8 as claimed: a run whose response has no location, or whose chosen
\* location has no observation, or whose time range selects none, is not
\* halted by that.
C8_EmptyNotTerminal == pc \notin {"stop_no_entries", "stop_empty_df"}

\* C8 amended: a response without locations, and a chosen location without
\* observations, each give a 'no data' warning and halt the run before the
\* export; a time range that selects no observation gives a 'no data' warning
\* in place of the trend charts and does not halt the run, which goes on to
\* the export, offered over the empty set.
C8_EmptyResults ==
    /\ [](/\ (raw # None /\ raw[1].data = <<>> /\ pc # "entries") => pc = "stop_no_entries"
          /\ pc = "stop_no_entries" =>
                /\ raw[1].data = <<>>
                /\ "warning: Tidak ada data untuk ADM1 ini" \in shown
                /\ NoExport
          /\ (selected_entry # None /\ df = <<>> /\ pc \notin {"flatten", "check_df"})
                => pc = "stop_empty_df"
          /\ pc = "stop_empty_df" =>
                /\ df = <<>>
                /\ "warning: Data cuaca kosong untuk lokasi ini" \in shown
                /\ NoExport
          /\ "warning: Tidak ada data di rentang waktu yang dipilih" \in shown =>
                /\ df # <<>> /\ df_sel = <<>>
                /\ pc \in {"table", "windrose", "show_table", "done"}
                /\ "fig_t" \notin shown
          /\ (df # <<>> /\ df_sel = <<>> /\ pc \in {"table", "windrose", "show_table", "done"})
                => "warning: Tidak ada data di rentang waktu yang dipilih" \in shown
          /\ pc = "done" => exported = Some(df_sel) /\ "Ekspor Data" \in shown)
    /\ [][pc \notin {"stop_no_entries", "stop_empty_df"}]_vars

\* A range between two observations has selected nothing and the run has
\* reached its end with the empty table offered for download.
C8_Witness ==
    /\ pc = "done"
    /\ start_dt # None
    /\ df # <<>> /\ df_sel = <<>>
    /\ exported = Some(<<>>)
    /\ "warning: Tidak ada data di rentang waktu yang dipilih" \in shown

(***************************************************************************)
(* Claims about the caches                                                 *)
(***************************************************************************)
\* C9: over any sequence of runs, a forecast fetched for code k is served to
\* every later run asking for k, without an HTTP request, while less than 300
\* seconds have passed, and a request is sent once they have; the same holds
\* of the province table with 3600 seconds; an entry leaves a cache, or is
\* replaced, only when its time has passed, whatever the user does; and what
\* is served for a code was fetched for that code.
C9_Caching ==
    [][/\ (pc = "fetch" /\ pc' \in {"entries", "stop_transport"}) =>
             IF adm1[1] \in DOMAIN cache_fc /\ now - cache_fc[adm1[1]].stored < 300
               THEN /\ pc' = "entries"
                    /\ requests' = requests
                    /\ raw' = Some(cache_fc[adm1[1]].value)
               ELSE /\ requests' = Append(requests, "GET forecast")
                    /\ pc' = "entries" => raw'[1].issued = now
       /\ (pc = "resolve" /\ pc' # "resolve" /\ ~isdigit(user_input)) =>
             IF cache_adm # None /\ now - cache_adm[1].stored < 3600
               THEN requests' = requests /\ cache_adm' = cache_adm
               ELSE requests' = Append(requests, "GET adm")
       /\ \A k \in DOMAIN cache_fc :
             (k \notin DOMAIN cache_fc' \/ cache_fc'[k] # cache_fc[k])
                => now - cache_fc[k].stored >= 300
       /\ (cache_adm # None /\ cache_adm' # cache_adm) => now - cache_adm[1].stored >= 3600
       /\ raw' # None => raw'[1].lokasi.adm1 = adm1'[1]
       /\ \A k \in DOMAIN cache_fc' : cache_fc'[k].value.lokasi.adm1 = k
      ]_vars

\* A run started by the button has been served, without a request, the
\* forecast an earlier run fetched 299 seconds before.
C9_Witness ==
    /\ pc = "entries"
    /\ refresh
    /\ requests = <<>>
    /\ raw # None
    /\ now - raw[1].issued = 299

====
